---------------------------- MODULE Spec2Model ----------------------------
(***************************************************************************)
(* Pong: the physics/scoring engine (update_ball, clamp_paddle,            *)
(* reset_ball), the headless match runner (run_single_ai_match), the       *)
(* controller factory (create_ai) and the benchmark aggregator             *)
(* (run_benchmark) of src/pong.py and src/ai_opponents.py.                 *)
(***************************************************************************)
EXTENDS Integers, Sequences, FiniteSets, TLC

(***************************************************************************)
(* Program constants (src/pong.py 30-46, src/ai_opponents.py 9-11).        *)
(***************************************************************************)
WIDTH == 800
HEIGHT == 500
FPS == 60
WIN_SCORE == 7
DEFAULT_MAX_MATCH_FRAMES == FPS * 45
BENCHMARK_MAX_BALL_X_SPEED == 20
BENCHMARK_MAX_BALL_Y_SPEED == 14
PADDLE_WIDTH == 12
PADDLE_HEIGHT == 90
PADDLE_SPEED == 6
BALL_SIZE == 14
BALL_START_SPEED == 5
BALL_MAX_Y_SPEED == 7
MOVE_UP == -1
MOVE_STAY == 0
MOVE_DOWN == 1
AI_CHOICES == {"tracking", "reference", "random", "student"}

(***************************************************************************)
(* pygame.Rect: integer x, y (top-left), w, h and the derived edges.       *)
(***************************************************************************)
Rect(x, y, w, h) == [x |-> x, y |-> y, w |-> w, h |-> h]
top(r) == r.y
bottom(r) == r.y + r.h
left(r) == r.x
right(r) == r.x + r.w
centerx(r) == r.x + (r.w \div 2)
centery(r) == r.y + (r.h \div 2)
\* rect.center = (cx, cy)
set_center(r, cx, cy) == [r EXCEPT !.x = cx - (r.w \div 2), !.y = cy - (r.h \div 2)]
\* Rect.colliderect: strict overlap, touching edges do not collide
colliderect(a, b) ==
    /\ a.x < b.x + b.w
    /\ a.y < b.y + b.h
    /\ a.x + a.w > b.x
    /\ a.y + a.h > b.y

abs(n) == IF n < 0 THEN -n ELSE n
\* Python int(num / den) for den > 0: truncation toward zero
TruncDiv(num, den) == IF num >= 0 THEN num \div den ELSE -((-num) \div den)

(***************************************************************************)
(* src/ai_opponents.py                                                     *)
(***************************************************************************)
\* reflect_y without folding the upper half of the period back
reflect_y_NoFold(y_value, height) ==
    IF height <= 0 THEN 0 ELSE y_value % (2 * height)

\* reflect_y on integers; Python's % with a positive right operand is never
\* negative; the 0.0 returned for height <= 0 is the number 0
reflect_y(y_value, height) ==
    IF height <= 0
    THEN 0
    ELSE LET period == 2 * height
             reflected == y_value % period
         IN  IF reflected > height THEN period - reflected ELSE reflected

\* normalize_move passing its argument through
normalize_move_Unclipped(move) == move

normalize_move(move) ==
    IF move < 0 THEN MOVE_UP
    ELSE IF move > 0 THEN MOVE_DOWN
    ELSE MOVE_STAY

is_ball_moving_toward_me(state) ==
    IF state.my_side = "right" THEN state.ball_vx > 0 ELSE state.ball_vx < 0

tracking_ai_choose_move(state) ==
    LET paddle_center == state.my_paddle_y + (state.paddle_height \div 2)
        target_y == IF is_ball_moving_toward_me(state)
                    THEN state.ball_y
                    ELSE state.window_height \div 2
        dead_zone == 8
    IN  IF target_y < paddle_center - dead_zone THEN MOVE_UP
        ELSE IF target_y > paddle_center + dead_zone THEN MOVE_DOWN
        ELSE MOVE_STAY

(***************************************************************************)
(* Controllers.  A controller name is a word together with how it is       *)
(* written: in capitals or not, padded with whitespace or not.             *)
(***************************************************************************)
Name(word) == [word |-> word, upper |-> FALSE, padded |-> FALSE]
Written(word, upper, padded) == [word |-> word, upper |-> upper, padded |-> padded]
strip(name) == [name EXCEPT !.padded = FALSE]
lower(name) == [name EXCEPT !.upper = FALSE]

\* what a controller value is: the 2-tuple create_ai returns ("pair"), an object
\* exposing choose_move ("object"), or no value because ValueError was raised
Pair(fn, label) == [shape |-> "pair", fn |-> fn, label |-> label]
Object(fn) == [shape |-> "object", fn |-> fn, label |-> ""]
ValueError == [shape |-> "raise", fn |-> "ValueError", label |-> ""]
\* a local variable that no statement has assigned yet
Unbound == [shape |-> "unbound", fn |-> "", label |-> ""]

\* create_ai comparing the stripped name as it is written
create_ai_CaseSensitive(name) ==
    LET key == strip(name)
    IN  IF key = Name("tracking") THEN Pair("tracking_ai_choose_move", "TrackingAI")
        ELSE IF key = Name("reference") THEN Pair("make_reference_ai", "ReferenceAI")
        ELSE IF key = Name("random") THEN Pair("random_ai_choose_move", "RandomAI")
        ELSE IF key = Name("student") THEN Pair("student_ai_choose_move", "StudentAI")
        ELSE ValueError

create_ai(name) ==
    LET key == lower(strip(name))
    IN  IF key = Name("tracking") THEN Pair("tracking_ai_choose_move", "TrackingAI")
        ELSE IF key = Name("reference") THEN Pair("make_reference_ai", "ReferenceAI")
        ELSE IF key = Name("random") THEN Pair("random_ai_choose_move", "RandomAI")
        ELSE IF key = Name("student") THEN Pair("student_ai_choose_move", "StudentAI")
        ELSE ValueError

\* make_reference_ai: the closure's cells as created
FreshMem == [hold_frames |-> 0, last_move |-> MOVE_STAY]

\* one call of the closure returned by make_reference_ai; mistake is
\* random.random() < 0.18, pick is random.choice, hold is random.randint(2, 4)
reference_choose_move(mem, state, mistake, pick, hold) ==
    IF mem.hold_frames > 0
    THEN [raised |-> FALSE, move |-> mem.last_move,
          mem |-> [mem EXCEPT !.hold_frames = mem.hold_frames - 1], drawn |-> 0]
    ELSE LET paddle_center == state.my_paddle_y + (state.paddle_height \div 2)
             target_y == IF is_ball_moving_toward_me(state)
                         THEN state.ball_y
                         ELSE state.window_height \div 2
             dead_zone == 24
             tracked == IF target_y < paddle_center - dead_zone THEN MOVE_UP
                        ELSE IF target_y > paddle_center + dead_zone THEN MOVE_DOWN
                        ELSE MOVE_STAY
             last == IF mistake THEN pick ELSE tracked
         IN  [raised |-> FALSE, move |-> last,
              mem |-> [hold_frames |-> hold, last_move |-> last],
              drawn |-> IF mistake THEN 3 ELSE 2]

(***************************************************************************)
(* src/pong.py: paddles and ball                                           *)
(***************************************************************************)
\* clamp_paddle without its second test
clamp_paddle_TopOnly(paddle_rect) ==
    IF top(paddle_rect) < 0 THEN [paddle_rect EXCEPT !.y = 0] ELSE paddle_rect

clamp_paddle(paddle_rect) ==
    LET p1 == IF top(paddle_rect) < 0 THEN [paddle_rect EXCEPT !.y = 0] ELSE paddle_rect
    IN  IF bottom(p1) > HEIGHT THEN [p1 EXCEPT !.y = HEIGHT - p1.h] ELSE p1

\* move_left_paddle_with_ai and move_right_paddle_with_ai have the same body
move_paddle_with_ai(paddle, ai_move) ==
    clamp_paddle([paddle EXCEPT !.y = paddle.y + normalize_move(ai_move) * PADDLE_SPEED])

\* reset_ball: the two random.choice results are the parameters
reset_ball(ball_rect, x_direction, y_direction) ==
    [ball_rect |-> set_center(ball_rect, WIDTH \div 2, HEIGHT \div 2),
     vx |-> BALL_START_SPEED * x_direction,
     vy |-> BALL_START_SPEED * y_direction]

build_ai_state(side, my_paddle, opponent_paddle, ball_rect, ball_vx, ball_vy) ==
    [window_width |-> WIDTH,
     window_height |-> HEIGHT,
     paddle_height |-> PADDLE_HEIGHT,
     paddle_speed |-> PADDLE_SPEED,
     my_side |-> side,
     my_paddle_x |-> my_paddle.x,
     my_paddle_y |-> my_paddle.y,
     opponent_paddle_x |-> opponent_paddle.x,
     opponent_paddle_y |-> opponent_paddle.y,
     ball_x |-> centerx(ball_rect),
     ball_y |-> centery(ball_rect),
     ball_vx |-> ball_vx,
     ball_vy |-> ball_vy]

\* bounce_off_paddle without the lower limit on the vertical speed
bounce_off_paddle_NoLowerLimit(ball_rect, paddle_rect, vx, vy) ==
    LET d == centery(ball_rect) - centery(paddle_rect)
        vy1 == vy + TruncDiv(d * 2 * 3, PADDLE_HEIGHT)
    IN  [vx |-> -vx, vy |-> IF vy1 > BALL_MAX_Y_SPEED THEN BALL_MAX_Y_SPEED ELSE vy1]

bounce_off_paddle(ball_rect, paddle_rect, vx, vy) ==
    LET d == centery(ball_rect) - centery(paddle_rect)
        \* int(d / (PADDLE_HEIGHT / 2) * 3)
        vy1 == vy + TruncDiv(d * 2 * 3, PADDLE_HEIGHT)
        vy2 == IF vy1 > BALL_MAX_Y_SPEED THEN BALL_MAX_Y_SPEED ELSE vy1
        vy3 == IF vy2 < -BALL_MAX_Y_SPEED THEN -BALL_MAX_Y_SPEED ELSE vy2
    IN  [vx |-> -vx, vy |-> vy3]

\* integration with a bounce off the bottom wall only
MoveBall_BottomWallOnly(ball_rect, vx, vy) ==
    LET b == [ball_rect EXCEPT !.x = ball_rect.x + vx, !.y = ball_rect.y + vy]
    IN  [ball_rect |-> b, vx |-> vx, vy |-> IF bottom(b) >= HEIGHT THEN -vy ELSE vy]

\* update_ball lines 231-236: integration and the wall bounce
MoveBall(ball_rect, vx, vy) ==
    LET b == [ball_rect EXCEPT !.x = ball_rect.x + vx, !.y = ball_rect.y + vy]
    IN  [ball_rect |-> b,
         vx |-> vx,
         vy |-> IF top(b) <= 0 \/ bottom(b) >= HEIGHT THEN -vy ELSE vy]

\* update_ball lines 238-244: the paddle collisions, applied to the moved ball
PaddleCollisions(m, left_paddle, right_paddle) ==
    IF colliderect(m.ball_rect, left_paddle) /\ m.vx < 0
    THEN LET b == [m.ball_rect EXCEPT !.x = right(left_paddle)]
             v == bounce_off_paddle(b, left_paddle, m.vx, m.vy)
         IN  [ball_rect |-> b, vx |-> v.vx, vy |-> v.vy, hit |-> "left"]
    ELSE IF colliderect(m.ball_rect, right_paddle) /\ m.vx > 0
    THEN LET b == [m.ball_rect EXCEPT !.x = left(right_paddle) - m.ball_rect.w]
             v == bounce_off_paddle(b, right_paddle, m.vx, m.vy)
         IN  [ball_rect |-> b, vx |-> v.vx, vy |-> v.vy, hit |-> "right"]
    ELSE [ball_rect |-> m.ball_rect, vx |-> m.vx, vy |-> m.vy, hit |-> "none"]

\* scoring that credits the point to the side whose boundary was crossed
Scoring_WrongSide(p, left_score, right_score, x_direction, y_direction) ==
    LET r == reset_ball(p.ball_rect, x_direction, y_direction)
    IN  IF left(p.ball_rect) <= 0
        THEN [ball_rect |-> r.ball_rect, vx |-> r.vx, vy |-> r.vy,
              left_score |-> left_score + 1, right_score |-> right_score,
              reset |-> TRUE]
        ELSE IF right(p.ball_rect) >= WIDTH
        THEN [ball_rect |-> r.ball_rect, vx |-> r.vx, vy |-> r.vy,
              left_score |-> left_score, right_score |-> right_score + 1,
              reset |-> TRUE]
        ELSE [ball_rect |-> p.ball_rect, vx |-> p.vx, vy |-> p.vy,
              left_score |-> left_score, right_score |-> right_score,
              reset |-> FALSE]

\* scoring that counts a ball past the left boundary twice
Scoring_DoublePoint(p, left_score, right_score, x_direction, y_direction) ==
    LET r == reset_ball(p.ball_rect, x_direction, y_direction)
    IN  IF left(p.ball_rect) <= 0
        THEN [ball_rect |-> r.ball_rect, vx |-> r.vx, vy |-> r.vy,
              left_score |-> left_score, right_score |-> right_score + 2,
              reset |-> TRUE]
        ELSE IF right(p.ball_rect) >= WIDTH
        THEN [ball_rect |-> r.ball_rect, vx |-> r.vx, vy |-> r.vy,
              left_score |-> left_score + 1, right_score |-> right_score,
              reset |-> TRUE]
        ELSE [ball_rect |-> p.ball_rect, vx |-> p.vx, vy |-> p.vy,
              left_score |-> left_score, right_score |-> right_score,
              reset |-> FALSE]

\* update_ball lines 246-254: scoring, with reset_ball's random directions
Scoring(p, left_score, right_score, x_direction, y_direction) ==
    LET r == reset_ball(p.ball_rect, x_direction, y_direction)
    IN  IF left(p.ball_rect) <= 0
        THEN [ball_rect |-> r.ball_rect, vx |-> r.vx, vy |-> r.vy,
              left_score |-> left_score, right_score |-> right_score + 1,
              reset |-> TRUE]
        ELSE IF right(p.ball_rect) >= WIDTH
        THEN [ball_rect |-> r.ball_rect, vx |-> r.vx, vy |-> r.vy,
              left_score |-> left_score + 1, right_score |-> right_score,
              reset |-> TRUE]
        ELSE [ball_rect |-> p.ball_rect, vx |-> p.vx, vy |-> p.vy,
              left_score |-> left_score, right_score |-> right_score,
              reset |-> FALSE]

\* the outcome record carries what update_ball returns and the mutated ball_rect
update_ball(ball_rect, left_paddle, right_paddle, vx, vy, left_score, right_score, x_direction, y_direction) ==
    Scoring(PaddleCollisions(MoveBall(ball_rect, vx, vy), left_paddle, right_paddle),
            left_score, right_score, x_direction, y_direction)

create_match_objects(x_direction, y_direction) ==
    LET r == reset_ball(Rect(0, 0, BALL_SIZE, BALL_SIZE), x_direction, y_direction)
    IN  [left_paddle |-> Rect(30, (HEIGHT \div 2) - (PADDLE_HEIGHT \div 2),
                              PADDLE_WIDTH, PADDLE_HEIGHT),
         right_paddle |-> Rect(WIDTH - 30 - PADDLE_WIDTH,
                               (HEIGHT \div 2) - (PADDLE_HEIGHT \div 2),
                               PADDLE_WIDTH, PADDLE_HEIGHT),
         ball_rect |-> r.ball_rect, vx |-> r.vx, vy |-> r.vy]

(***************************************************************************)
(* Bounds and inputs of the model.                                         *)
(***************************************************************************)
\* frame ceiling of the matches whose controllers choose freely in every frame
MaxFreeFrames == 4
\* a frame ceiling that ends a match after its first point
ShortCeiling == 100
\* a frame ceiling that ends a match after its second point
MidCeiling == 170
\* integers a test controller returns: any integer is a legal move
StubMoves == {-2, 0, 3}
\* random.seed value of a match run on its own
Seeds == {2026}

\* controller names as a caller writes them: the four names and two others, in
\* small or capital letters, bare or padded with whitespace
NamesGiven ==
    {Written(w, upper, padded) :
        w \in AI_CHOICES \cup {"human", "trackingai"}, upper \in BOOLEAN, padded \in BOOLEAN}

\* controllers as create_ai builds them
FactoryBuilt == {create_ai(Name(w)) : w \in AI_CHOICES}
\* objects exposing choose_move bound to a strategy of ai_opponents.py
StrategyObjects == {Object("tracking_ai_choose_move"), Object("random_ai_choose_move"),
                    Object("make_reference_ai")}
\* test controllers: constant moves, any move or an error, an error in any
\* call, an error in every call, one that aims (stub_aim), one that moves to
\* where the snapshot shows the opponent's paddle (stub_follow)
StubObjects == {Object("stub_up"), Object("stub_stay"), Object("stub_down"),
                Object("stub_free"), Object("stub_flaky"), Object("stub_raise"),
                Object("stub_aim"), Object("stub_follow")}

\* (left controller, right controller, max_frames) of the matches explored
FreePairs == {<<Object("stub_free"), Object("stub_free")>>,
              <<Object("random_ai_choose_move"), Object("random_ai_choose_move")>>,
              <<Object("make_reference_ai"), Object("stub_stay")>>,
              <<Object("stub_stay"), Object("make_reference_ai")>>,
              <<Object("stub_flaky"), Object("make_reference_ai")>>,
              <<Object("stub_flaky"), Object("random_ai_choose_move")>>}
SteadyPairs == {Object("stub_up"), Object("stub_stay"), Object("stub_down"),
                Object("tracking_ai_choose_move"), Object("stub_flaky"),
                Object("stub_raise"), Object("stub_follow")}
LongPairs == {Object("stub_stay"), Object("tracking_ai_choose_move"), Object("stub_aim")}
MatchInputs ==
    {<<create_ai(ln), create_ai(rn), mf>> : ln \in NamesGiven, rn \in NamesGiven, mf \in {0, FPS}}
    \cup {<<p[1], p[2], mf>> : p \in FreePairs, mf \in 0..MaxFreeFrames}
    \cup (SteadyPairs \X SteadyPairs \X {ShortCeiling, MidCeiling})
    \cup (LongPairs \X LongPairs \X {DEFAULT_MAX_MATCH_FRAMES})

VARIABLES
    pc,             \* "running", "finished": where run_single_ai_match is
    left_ai, right_ai,      \* the controllers
    left_mem, right_mem,    \* the cells of a make_reference_ai closure
    max_frames,
    left_paddle, right_paddle, ball_rect, vx, vy,
    left_score, right_score, frame_count,
    result,         \* what run_single_ai_match returned
    rng,            \* the random module: the last seed and the draws since
    bpc,            \* where run_benchmark is: "loop", "match", "done"; "none" outside it
    args,           \* run_benchmark's argument
    factory,        \* the controllers create_ai yields for "reference" and "student"
    matches, minimum_decisive, pass_win_rate,
    match_index, student_wins, reference_wins, draws, student_errors,
    passed,         \* run_benchmark's verdict: "PASS", "FAIL"; "" before it
    call, ret       \* a function called on its own: its arguments, what it returned

match_vars == <<pc, left_ai, right_ai, left_mem, right_mem, left_paddle,
                right_paddle, ball_rect, vx, vy, left_score, right_score,
                frame_count, result>>
bench_vars == <<bpc, args, factory, matches, minimum_decisive, pass_win_rate,
                match_index, student_wins, reference_wins, draws, student_errors,
                passed>>
fn_vars == <<call, ret>>
vars == <<match_vars, max_frames, rng, bench_vars, fn_vars>>

NoResult == [winner |-> "", left_score |-> 0, right_score |-> 0, reason |-> ""]
Result(winner, ls, rs, reason) ==
    [winner |-> winner, left_score |-> ls, right_score |-> rs, reason |-> reason]

\* a test controller that keeps a rally going: it meets a rising ball with the
\* lower part of its paddle, a falling ball with the upper part and a level ball
\* with the middle, and returns the distance still to go, in steps of 4
stub_aim(state) ==
    LET paddle_center == state.my_paddle_y + (state.paddle_height \div 2)
        lead == IF state.ball_vy > 0 THEN 48 ELSE IF state.ball_vy < 0 THEN -48 ELSE 0
        diff == state.ball_y + lead - paddle_center
    IN  TruncDiv(diff, 4)

(***************************************************************************)
(* ai.choose_move(state) as run_single_ai_match evaluates it: the set of   *)
(* outcomes, each an error or a move with the closure cells and the number *)
(* of random draws after the call.                                         *)
(***************************************************************************)
Raised(mem) == [raised |-> TRUE, move |-> 0, mem |-> mem, drawn |-> 0]
Returned(move, mem, drawn) == [raised |-> FALSE, move |-> move, mem |-> mem, drawn |-> drawn]

choose_move(ai, mem, state) ==
    IF ai.shape # "object"
    THEN {Raised(mem)}      \* a tuple has no attribute choose_move: AttributeError
    ELSE IF ai.fn = "tracking_ai_choose_move"
    THEN {Returned(tracking_ai_choose_move(state), mem, 0)}
    ELSE IF ai.fn = "random_ai_choose_move"
    THEN {Returned(m, mem, 1) : m \in {MOVE_UP, MOVE_STAY, MOVE_DOWN}}
    ELSE IF ai.fn = "make_reference_ai"
    THEN {reference_choose_move(mem, state, mistake, pick, hold) :
            mistake \in BOOLEAN, pick \in {MOVE_UP, MOVE_STAY, MOVE_DOWN}, hold \in 2..4}
    ELSE IF ai.fn = "stub_up" THEN {Returned(-2, mem, 0)}
    ELSE IF ai.fn = "stub_stay" THEN {Returned(0, mem, 0)}
    ELSE IF ai.fn = "stub_down" THEN {Returned(3, mem, 0)}
    ELSE IF ai.fn = "stub_free"
    THEN {Returned(m, mem, 0) : m \in StubMoves} \cup {Raised(mem)}
    ELSE IF ai.fn = "stub_aim" THEN {Returned(stub_aim(state), mem, 0)}
    ELSE IF ai.fn = "stub_follow"
    THEN {Returned(state.opponent_paddle_y - state.my_paddle_y, mem, 0)}
    ELSE IF ai.fn = "stub_flaky" THEN {Returned(0, mem, 0), Raised(mem)}
    ELSE IF ai.fn = "stub_raise" THEN {Raised(mem)}
    ELSE {Raised(mem)}

(***************************************************************************)
(* run_single_ai_match                                                     *)
(***************************************************************************)
\* no call of run_single_ai_match has been made: its locals do not exist
NoMatch ==
    [pc |-> "none", left_ai |-> Unbound, right_ai |-> Unbound,
     left_mem |-> FreshMem, right_mem |-> FreshMem,
     left_paddle |-> Rect(0, 0, 0, 0), right_paddle |-> Rect(0, 0, 0, 0),
     ball_rect |-> Rect(0, 0, 0, 0), vx |-> 0, vy |-> 0,
     left_score |-> 0, right_score |-> 0, frame_count |-> 0,
     result |-> NoResult]

\* lines 321-327: the locals of run_single_ai_match at the first test of the loop
\* condition, for the controllers la, ra that create_ai returned; when create_ai
\* raised, the call is over ("raised") with the locals after it never assigned
NewMatch(la, ra, x_direction, y_direction) ==
    LET o == create_match_objects(x_direction, y_direction)
    IN  IF la.shape = "raise"
        THEN [NoMatch EXCEPT !.pc = "raised", !.left_ai = la]
        ELSE IF ra.shape = "raise"
        THEN [NoMatch EXCEPT !.pc = "raised", !.left_ai = la, !.right_ai = ra]
        ELSE [pc |-> "running", left_ai |-> la, right_ai |-> ra,
              left_mem |-> FreshMem, right_mem |-> FreshMem,
              left_paddle |-> o.left_paddle, right_paddle |-> o.right_paddle,
              ball_rect |-> o.ball_rect, vx |-> o.vx, vy |-> o.vy,
              left_score |-> 0, right_score |-> 0, frame_count |-> 0,
              result |-> NoResult]

\* the match variables as one record
MatchState ==
    [pc |-> pc, left_ai |-> left_ai, right_ai |-> right_ai,
     left_mem |-> left_mem, right_mem |-> right_mem,
     left_paddle |-> left_paddle, right_paddle |-> right_paddle,
     ball_rect |-> ball_rect, vx |-> vx, vy |-> vy,
     left_score |-> left_score, right_score |-> right_score,
     frame_count |-> frame_count, result |-> result]

NoArgs == [matches |-> 0, pass_win_rate |-> 0, max_match_frames |-> 0, seed |-> 0]

\* run_benchmark is not running: a direct call of run_single_ai_match
NoBenchmark ==
    /\ bpc = "none" /\ args = NoArgs /\ factory = <<ValueError, ValueError>>
    /\ matches = 0 /\ minimum_decisive = 0 /\ pass_win_rate = 0
    /\ match_index = 0 /\ student_wins = 0 /\ reference_wins = 0
    /\ draws = 0 /\ student_errors = 0 /\ passed = ""
    /\ call = <<>> /\ ret = <<>>

\* a call run_single_ai_match(.., .., mf) after random.seed(seed)
MatchStart(la, ra, mf, seed, x_direction, y_direction) ==
    /\ LET m == NewMatch(la, ra, x_direction, y_direction)
       IN  /\ pc = m.pc /\ left_ai = m.left_ai /\ right_ai = m.right_ai
           /\ left_mem = m.left_mem /\ right_mem = m.right_mem
           /\ left_paddle = m.left_paddle /\ right_paddle = m.right_paddle
           /\ ball_rect = m.ball_rect /\ vx = m.vx /\ vy = m.vy
           /\ left_score = m.left_score /\ right_score = m.right_score
           /\ frame_count = m.frame_count /\ result = m.result
    /\ max_frames = mf
    /\ rng = [seed |-> seed,
              drawn |-> IF la.shape = "raise" \/ ra.shape = "raise" THEN 0 ELSE 2]
    /\ NoBenchmark

Init ==
    \E inp \in MatchInputs, seed \in Seeds, x_direction \in {-1, 1}, y_direction \in {-1, 1} :
        MatchStart(inp[1], inp[2], inp[3], seed, x_direction, y_direction)

\* the loop condition without the frame ceiling
LoopCondition_NoCeiling ==
    left_score < WIN_SCORE /\ right_score < WIN_SCORE

\* line 329
LoopCondition ==
    left_score < WIN_SCORE /\ right_score < WIN_SCORE /\ frame_count < max_frames

\* the right snapshot built after the left paddle took a step up
right_state_AfterLeftMove ==
    build_ai_state("right", right_paddle, move_paddle_with_ai(left_paddle, MOVE_UP),
                   ball_rect, vx, vy)

\* lines 330-331
left_state == build_ai_state("left", left_paddle, right_paddle, ball_rect, vx, vy)
right_state == build_ai_state("right", right_paddle, left_paddle, ball_rect, vx, vy)

\* the rally acceleration applied in every frame without a point
Accelerate_EveryFrame(prev_vx, u) ==
    LET ax == IF ~u.reset /\ abs(u.vx) < BENCHMARK_MAX_BALL_X_SPEED
              THEN u.vx + (IF u.vx > 0 THEN 1 ELSE -1) ELSE u.vx
        ay == IF ~u.reset /\ u.vy # 0 /\ abs(u.vy) < BENCHMARK_MAX_BALL_Y_SPEED
              THEN u.vy + (IF u.vy > 0 THEN 1 ELSE -1) ELSE u.vy
    IN  [vx |-> ax, vy |-> ay]

\* lines 355-361: the rally acceleration
Accelerate(prev_vx, u) ==
    LET scored == u.reset
        paddle_hit == ~scored /\ prev_vx * u.vx < 0
        ax == IF paddle_hit /\ abs(u.vx) < BENCHMARK_MAX_BALL_X_SPEED
              THEN u.vx + (IF u.vx > 0 THEN 1 ELSE -1) ELSE u.vx
        ay == IF paddle_hit /\ u.vy # 0 /\ abs(u.vy) < BENCHMARK_MAX_BALL_Y_SPEED
              THEN u.vy + (IF u.vy > 0 THEN 1 ELSE -1) ELSE u.vy
    IN  [vx |-> ax, vy |-> ay]

\* the final returns with the tie going to the left side
MatchResult_TieToLeft(ls, rs) ==
    IF ls >= rs THEN Result("left", ls, rs, "score")
    ELSE Result("right", ls, rs, "score")

\* lines 365-369
MatchResult(ls, rs) ==
    IF ls > rs THEN Result("left", ls, rs, "score")
    ELSE IF rs > ls THEN Result("right", ls, rs, "score")
    ELSE Result("draw", ls, rs, "frame_limit")

\* the left error handled after the right decision call was made and returned
LeftAIError_AfterRightCall ==
    /\ pc = "running" /\ LoopCondition
    /\ \E l \in choose_move(left_ai, left_mem, left_state) :
        /\ l.raised
        /\ \E r \in choose_move(right_ai, right_mem, right_state) :
            /\ ~r.raised
            /\ left_mem' = l.mem /\ right_mem' = r.mem
            /\ rng' = [rng EXCEPT !.drawn = rng.drawn + l.drawn + r.drawn]
    /\ result' = Result("right", left_score, right_score, "left_ai_error")
    /\ pc' = "finished"
    /\ UNCHANGED <<left_ai, right_ai, max_frames, left_paddle, right_paddle,
                   ball_rect, vx, vy, left_score, right_score, frame_count>>
    /\ UNCHANGED bench_vars
    /\ UNCHANGED fn_vars

\* lines 333-336: the left decision call raises
LeftAIError ==
    /\ pc = "running" /\ LoopCondition
    /\ \E l \in choose_move(left_ai, left_mem, left_state) :
        /\ l.raised
        /\ left_mem' = l.mem
        /\ rng' = [rng EXCEPT !.drawn = rng.drawn + l.drawn]
    /\ result' = Result("right", left_score, right_score, "left_ai_error")
    /\ pc' = "finished"
    /\ UNCHANGED <<left_ai, right_ai, right_mem, max_frames, left_paddle, right_paddle,
                   ball_rect, vx, vy, left_score, right_score, frame_count>>
    /\ UNCHANGED bench_vars
    /\ UNCHANGED fn_vars

\* the right error handled after the left paddle was already moved
RightAIError_AfterLeftMove ==
    /\ pc = "running" /\ LoopCondition
    /\ \E l \in choose_move(left_ai, left_mem, left_state) :
        /\ ~l.raised
        /\ \E r \in choose_move(right_ai, right_mem, right_state) :
            /\ r.raised
            /\ left_mem' = l.mem /\ right_mem' = r.mem
            /\ rng' = [rng EXCEPT !.drawn = rng.drawn + l.drawn + r.drawn]
            /\ left_paddle' = move_paddle_with_ai(left_paddle, normalize_move(l.move))
    /\ result' = Result("left", left_score, right_score, "right_ai_error")
    /\ pc' = "finished"
    /\ UNCHANGED <<left_ai, right_ai, max_frames, right_paddle,
                   ball_rect, vx, vy, left_score, right_score, frame_count>>
    /\ UNCHANGED bench_vars
    /\ UNCHANGED fn_vars

\* lines 338-341: the left call returns, the right one raises
RightAIError ==
    /\ pc = "running" /\ LoopCondition
    /\ \E l \in choose_move(left_ai, left_mem, left_state) :
        /\ ~l.raised
        /\ \E r \in choose_move(right_ai, right_mem, right_state) :
            /\ r.raised
            /\ left_mem' = l.mem /\ right_mem' = r.mem
            /\ rng' = [rng EXCEPT !.drawn = rng.drawn + l.drawn + r.drawn]
    /\ result' = Result("left", left_score, right_score, "right_ai_error")
    /\ pc' = "finished"
    /\ UNCHANGED <<left_ai, right_ai, max_frames, left_paddle, right_paddle,
                   ball_rect, vx, vy, left_score, right_score, frame_count>>
    /\ UNCHANGED bench_vars
    /\ UNCHANGED fn_vars

\* the outcomes of update_ball over reset_ball's random directions
BallOutcomes(lp, rp) ==
    {update_ball(ball_rect, lp, rp, vx, vy, left_score, right_score, x_direction, y_direction) :
        x_direction \in {-1, 1}, y_direction \in {-1, 1}}

\* lines 330-363 when both calls return: one frame of the match
PlayFrame ==
    /\ pc = "running" /\ LoopCondition
    /\ \E l \in choose_move(left_ai, left_mem, left_state) :
       \E r \in choose_move(right_ai, right_mem, right_state) :
        LET left_move == normalize_move(l.move)
            right_move == normalize_move(r.move)
            lp == move_paddle_with_ai(left_paddle, left_move)
            rp == move_paddle_with_ai(right_paddle, right_move)
        IN  /\ ~l.raised /\ ~r.raised
            /\ left_mem' = l.mem /\ right_mem' = r.mem
            /\ left_paddle' = lp /\ right_paddle' = rp
            /\ \E u \in BallOutcomes(lp, rp) :
                LET a == Accelerate(vx, u)
                IN  /\ ball_rect' = u.ball_rect
                    /\ vx' = a.vx /\ vy' = a.vy
                    /\ left_score' = u.left_score /\ right_score' = u.right_score
                    /\ rng' = [rng EXCEPT !.drawn = rng.drawn + l.drawn + r.drawn
                                                    + (IF u.reset THEN 2 ELSE 0)]
    /\ frame_count' = frame_count + 1
    /\ UNCHANGED <<pc, left_ai, right_ai, max_frames, result>>
    /\ UNCHANGED bench_vars
    /\ UNCHANGED fn_vars

\* lines 329, 365-369: the loop condition fails and the match returns
ReturnResult ==
    /\ pc = "running" /\ ~LoopCondition
    /\ result' = MatchResult(left_score, right_score)
    /\ pc' = "finished"
    /\ UNCHANGED <<left_ai, right_ai, left_mem, right_mem, max_frames, left_paddle,
                   right_paddle, ball_rect, vx, vy, left_score, right_score,
                   frame_count, rng>>
    /\ UNCHANGED bench_vars
    /\ UNCHANGED fn_vars

Next == LeftAIError \/ RightAIError \/ PlayFrame \/ ReturnResult

Spec == Init /\ [][Next]_vars

\* The matches whose termination is checked: every kind of controller, and
\* matches that end by an error, by the frame ceiling and by the score.
TerminationPairs == {Object("stub_stay"), Object("tracking_ai_choose_move"),
                     Object("stub_flaky"), Object("stub_raise")}
TerminationInputs ==
    (FactoryBuilt \X FactoryBuilt \X {0, FPS})
    \cup {<<p[1], p[2], mf>> : p \in FreePairs, mf \in 0..MaxFreeFrames}
    \cup (TerminationPairs \X TerminationPairs \X {ShortCeiling})
    \cup ({Object("stub_stay")} \X {Object("stub_stay")} \X {DEFAULT_MAX_MATCH_FRAMES})

FairInit ==
    \E inp \in TerminationInputs, seed \in Seeds, x_direction \in {-1, 1}, y_direction \in {-1, 1} :
        MatchStart(inp[1], inp[2], inp[3], seed, x_direction, y_direction)

\* the match loop is one thread of control: it keeps taking steps until it returns
FairSpec == FairInit /\ [][Next]_vars /\ WF_vars(Next)

(***************************************************************************)
(* run_benchmark.  pass_win_rate is a float in the code and a whole number *)
(* of hundredths here; the comparison with the decisive win rate is exact. *)
(***************************************************************************)
max(a, b) == IF a >= b THEN a ELSE b
min(a, b) == IF a <= b THEN a ELSE b

\* --matches default (parse_args)
DEFAULT_MATCHES == 25
\* --seed default (parse_args)
DEFAULT_SEED == 2026

\* most matches of a benchmark run played frame by frame
MaxMatches == 6
\* most matches of a benchmark run with test controllers, played frame by frame
MaxStubMatches == 2

\* the minimum of decisive matches without its floor of 5
bench_minimum_decisive_QuarterOnly(n) == n \div 4

\* lines 374-377
bench_matches(a) == max(1, a.matches)
bench_max_frames(a) == max(60, a.max_match_frames)
bench_pass_win_rate(a) == min(max(a.pass_win_rate, 0), 100)
bench_minimum_decisive(n) == max(5, n \div 4)

Args(n, rate, frames, seed) ==
    [matches |-> n, pass_win_rate |-> rate, max_match_frames |-> frames, seed |-> seed]

\* Tallied, but a match that ended by a controller error is left out of the tallies
Tallied_ErrorUntallied(winner, reason) ==
    [student_wins |-> student_wins
                      + (IF winner = "right" /\ reason # "left_ai_error" THEN 1 ELSE 0),
     reference_wins |-> reference_wins
                        + (IF winner = "left" /\ reason # "right_ai_error" THEN 1 ELSE 0),
     draws |-> draws + (IF winner \notin {"left", "right"} THEN 1 ELSE 0),
     student_errors |-> student_errors + (IF reason = "right_ai_error" THEN 1 ELSE 0)]

\* Tallied, but an error of either controller is counted as a candidate error
Tallied_EitherErrorCounted(winner, reason) ==
    [student_wins |-> student_wins + (IF winner = "right" THEN 1 ELSE 0),
     reference_wins |-> reference_wins
                        + (IF winner # "right" /\ winner = "left" THEN 1 ELSE 0),
     draws |-> draws + (IF winner # "right" /\ winner # "left" THEN 1 ELSE 0),
     student_errors |-> student_errors
                        + (IF reason \in {"left_ai_error", "right_ai_error"} THEN 1 ELSE 0)]

\* lines 388-396: the tallies after a match with this winner and reason
Tallied(winner, reason) ==
    [student_wins |-> student_wins + (IF winner = "right" THEN 1 ELSE 0),
     reference_wins |-> reference_wins
                        + (IF winner # "right" /\ winner = "left" THEN 1 ELSE 0),
     draws |-> draws + (IF winner # "right" /\ winner # "left" THEN 1 ELSE 0),
     student_errors |-> student_errors + (IF reason = "right_ai_error" THEN 1 ELSE 0)]

\* Passed, but without the condition on candidate errors
Passed_ErrorsForgiven ==
    /\ student_wins + reference_wins >= minimum_decisive
    /\ IF student_wins + reference_wins > 0
       THEN student_wins * 100 >= pass_win_rate * (student_wins + reference_wins)
       ELSE 0 >= pass_win_rate

\* lines 404-410
Passed ==
    LET decisive_matches == student_wins + reference_wins
        \* decisive_win_rate >= pass_win_rate, the rate being 0.0 without decisive matches
        rate_reached == IF decisive_matches > 0
                        THEN student_wins * 100 >= pass_win_rate * decisive_matches
                        ELSE 0 >= pass_win_rate
    IN  /\ decisive_matches >= minimum_decisive
        /\ rate_reached
        /\ student_errors = 0

\* what create_ai("reference") and create_ai("student") yield in this run: the
\* values of create_ai, or test controllers put in its place
ShippedFactory == <<create_ai(Name("reference")), create_ai(Name("student"))>>
StubFactories ==
    {<<Object("make_reference_ai"), Object("stub_raise")>>,
     <<Object("stub_stay"), Object("stub_stay")>>,
     <<Object("stub_stay"), Object("stub_flaky")>>,
     <<Object("stub_flaky"), Object("stub_stay")>>}

\* the benchmark runs explored frame by frame
BenchInputs ==
    {<<Args(n, rate, frames, DEFAULT_SEED), ShippedFactory>> :
        n \in -1..MaxMatches, rate \in {-50, 60, 150}, frames \in {0, ShortCeiling}}
    \cup {<<Args(n, 60, frames, DEFAULT_SEED), f>> :
            n \in 1..MaxStubMatches, frames \in {0, ShortCeiling}, f \in StubFactories}

\* lines 372-382: run_benchmark(a) at the head of its loop
BenchStart(a, f) ==
    /\ bpc = "loop" /\ args = a /\ factory = f
    /\ matches = bench_matches(a)
    /\ max_frames = bench_max_frames(a)
    /\ pass_win_rate = bench_pass_win_rate(a)
    /\ minimum_decisive = bench_minimum_decisive(bench_matches(a))
    /\ match_index = 0 /\ student_wins = 0 /\ reference_wins = 0
    /\ draws = 0 /\ student_errors = 0 /\ passed = ""
    /\ pc = NoMatch.pc /\ left_ai = NoMatch.left_ai /\ right_ai = NoMatch.right_ai
    /\ left_mem = NoMatch.left_mem /\ right_mem = NoMatch.right_mem
    /\ left_paddle = NoMatch.left_paddle /\ right_paddle = NoMatch.right_paddle
    /\ ball_rect = NoMatch.ball_rect /\ vx = NoMatch.vx /\ vy = NoMatch.vy
    /\ left_score = 0 /\ right_score = 0 /\ frame_count = 0
    /\ result = NoResult
    /\ rng = [seed |-> -1, drawn |-> 0]
    /\ call = <<>> /\ ret = <<>>

BenchInit == \E inp \in BenchInputs : BenchStart(inp[1], inp[2])

\* StartMatch, but the random module is not seeded again for the match
StartMatch_NoReseed ==
    /\ bpc = "loop" /\ match_index < matches
    /\ rng' = [rng EXCEPT !.drawn = @ + 2]
    /\ \E x_direction \in {-1, 1}, y_direction \in {-1, 1} :
        LET m == NewMatch(factory[1], factory[2], x_direction, y_direction)
        IN  /\ pc' = m.pc /\ left_ai' = m.left_ai /\ right_ai' = m.right_ai
            /\ left_mem' = m.left_mem /\ right_mem' = m.right_mem
            /\ left_paddle' = m.left_paddle /\ right_paddle' = m.right_paddle
            /\ ball_rect' = m.ball_rect /\ vx' = m.vx /\ vy' = m.vy
            /\ left_score' = m.left_score /\ right_score' = m.right_score
            /\ frame_count' = m.frame_count /\ result' = m.result
    /\ bpc' = "match"
    /\ UNCHANGED <<max_frames, args, factory, matches, minimum_decisive, pass_win_rate,
                   match_index, student_wins, reference_wins, draws, student_errors,
                   passed>>
    /\ UNCHANGED fn_vars

\* lines 384-386 and 321-327: seed the random module and enter the next match
StartMatch ==
    /\ bpc = "loop" /\ match_index < matches
    /\ rng' = [seed |-> args.seed + match_index, drawn |-> 2]
    /\ \E x_direction \in {-1, 1}, y_direction \in {-1, 1} :
        LET m == NewMatch(factory[1], factory[2], x_direction, y_direction)
        IN  /\ pc' = m.pc /\ left_ai' = m.left_ai /\ right_ai' = m.right_ai
            /\ left_mem' = m.left_mem /\ right_mem' = m.right_mem
            /\ left_paddle' = m.left_paddle /\ right_paddle' = m.right_paddle
            /\ ball_rect' = m.ball_rect /\ vx' = m.vx /\ vy' = m.vy
            /\ left_score' = m.left_score /\ right_score' = m.right_score
            /\ frame_count' = m.frame_count /\ result' = m.result
    /\ bpc' = "match"
    /\ UNCHANGED <<max_frames, args, factory, matches, minimum_decisive, pass_win_rate,
                   match_index, student_wins, reference_wins, draws, student_errors,
                   passed>>
    /\ UNCHANGED fn_vars

\* lines 386-402: the match returned and is tallied
TallyMatch ==
    /\ bpc = "match" /\ pc = "finished"
    /\ LET t == Tallied(result.winner, result.reason)
       IN  /\ student_wins' = t.student_wins
           /\ reference_wins' = t.reference_wins
           /\ draws' = t.draws
           /\ student_errors' = t.student_errors
    /\ match_index' = match_index + 1
    /\ bpc' = "loop"
    /\ UNCHANGED <<match_vars, max_frames, rng, args, factory, matches,
                   minimum_decisive, pass_win_rate, passed>>
    /\ UNCHANGED fn_vars

\* lines 404-424: the loop is over; the exit status is 0 for PASS and 1 for FAIL
Verdict ==
    /\ bpc = "loop" /\ match_index >= matches
    /\ passed' = IF Passed THEN "PASS" ELSE "FAIL"
    /\ bpc' = "done"
    /\ UNCHANGED <<match_vars, max_frames, rng, args, factory, matches,
                   minimum_decisive, pass_win_rate, match_index, student_wins,
                   reference_wins, draws, student_errors>>
    /\ UNCHANGED fn_vars

BenchNext ==
    \/ StartMatch \/ LeftAIError \/ RightAIError \/ PlayFrame \/ ReturnResult
    \/ TallyMatch \/ Verdict

SpecBench == BenchInit /\ [][BenchNext]_vars

\* run_benchmark is one sequential function: its next statement is always executed
FairSpecBench == BenchInit /\ [][BenchNext]_vars /\ WF_vars(BenchNext)

(***************************************************************************)
(* run_benchmark over the returns of run_single_ai_match: a match is any   *)
(* of the values its return statements can produce.                        *)
(***************************************************************************)
\* lines 336, 341, 366, 368, 369
MatchReturns ==
    {r \in [winner : {"left", "right", "draw"}, left_score : 0..WIN_SCORE,
            right_score : 0..WIN_SCORE,
            reason : {"score", "frame_limit", "left_ai_error", "right_ai_error"}] :
        \/ r.reason = "left_ai_error" /\ r.winner = "right"
        \/ r.reason = "right_ai_error" /\ r.winner = "left"
        \/ r = MatchResult(r.left_score, r.right_score)}

\* what run_benchmark reads of a return: its winner and its reason
ReturnKinds == {<<r.winner, r.reason>> : r \in MatchReturns}

TallyInputs ==
    {Args(n, rate, 0, DEFAULT_SEED) :
        n \in {-1, 0, 1, 2, 3, 4, 5, 8, DEFAULT_MATCHES}, rate \in {-50, 0, 60, 100, 150}}

TallyInit == \E a \in TallyInputs : BenchStart(a, ShippedFactory)

\* lines 384-402 with the match replaced by one of its returns
TallyReturn ==
    /\ bpc = "loop" /\ match_index < matches
    /\ \E r \in ReturnKinds :
        LET t == Tallied(r[1], r[2])
        IN  /\ student_wins' = t.student_wins
            /\ reference_wins' = t.reference_wins
            /\ draws' = t.draws
            /\ student_errors' = t.student_errors
    /\ rng' = [seed |-> args.seed + match_index, drawn |-> 2]
    /\ match_index' = match_index + 1
    /\ UNCHANGED <<match_vars, max_frames, bpc, args, factory, matches,
                   minimum_decisive, pass_win_rate, passed>>
    /\ UNCHANGED fn_vars

TallyNext == TallyReturn \/ Verdict

SpecTally == TallyInit /\ [][TallyNext]_vars

(***************************************************************************)
(* Functions called on their own, outside a match: call holds the function *)
(* and its arguments, ret what it returned (for update_ball with the       *)
(* ball_rect it mutated); pc goes from "call" to "returned".               *)
(***************************************************************************)
\* ball positions, velocities and paddle positions update_ball is called with
BallXs == {17, 25, 29, 35, 42, 47, 393, 740, 744, 750, 765, 779}
BallYs == {-8, 0, 3, 100, 243, 483, 486, 494}
BallVxs == {-20, -6, -5, 5, 6, 20}
BallVys == {-8, -7, -5, -1, 0, 1, 5, 7, 8}
PaddleTops == {0, 60, 205, 410}

left_paddle_at(y) == Rect(30, y, PADDLE_WIDTH, PADDLE_HEIGHT)
right_paddle_at(y) == Rect(WIDTH - 30 - PADDLE_WIDTH, y, PADDLE_WIDTH, PADDLE_HEIGHT)

UpdateBallCalls ==
    {[fn |-> "update_ball", ball_rect |-> Rect(x, y, BALL_SIZE, BALL_SIZE),
      left_paddle |-> left_paddle_at(ly), right_paddle |-> right_paddle_at(ry),
      vx |-> bvx, vy |-> bvy, left_score |-> 0, right_score |-> 0] :
        x \in BallXs, y \in BallYs, bvx \in BallVxs, bvy \in BallVys,
        ly \in PaddleTops, ry \in PaddleTops}

\* the function is about to run: no match and no benchmark exists
CallStart(c) ==
    /\ call = c /\ ret = <<>>
    /\ pc = "call"
    /\ left_ai = NoMatch.left_ai /\ right_ai = NoMatch.right_ai
    /\ left_mem = NoMatch.left_mem /\ right_mem = NoMatch.right_mem
    /\ left_paddle = NoMatch.left_paddle /\ right_paddle = NoMatch.right_paddle
    /\ ball_rect = NoMatch.ball_rect /\ vx = NoMatch.vx /\ vy = NoMatch.vy
    /\ left_score = 0 /\ right_score = 0 /\ frame_count = 0
    /\ result = NoResult /\ max_frames = 0
    /\ rng = [seed |-> -1, drawn |-> 0]
    /\ bpc = "none" /\ args = NoArgs /\ factory = <<ValueError, ValueError>>
    /\ matches = 0 /\ minimum_decisive = 0 /\ pass_win_rate = 0
    /\ match_index = 0 /\ student_wins = 0 /\ reference_wins = 0
    /\ draws = 0 /\ student_errors = 0 /\ passed = ""

\* what a returning call leaves alone
CallFrame ==
    /\ pc' = "returned"
    /\ UNCHANGED <<call, left_ai, right_ai, left_mem, right_mem, left_paddle,
                   right_paddle, ball_rect, vx, vy, left_score, right_score,
                   frame_count, result, max_frames, bench_vars>>

\* update_ball(ball_rect, left_paddle, right_paddle, vx, vy, left_score, right_score)
ReturnUpdateBall ==
    /\ pc = "call" /\ call.fn = "update_ball"
    /\ \E x_direction \in {-1, 1}, y_direction \in {-1, 1} :
        LET u == update_ball(call.ball_rect, call.left_paddle, call.right_paddle,
                             call.vx, call.vy, call.left_score, call.right_score,
                             x_direction, y_direction)
        IN  /\ ret' = u
            /\ rng' = [rng EXCEPT !.drawn = @ + (IF u.reset THEN 2 ELSE 0)]
    /\ CallFrame

\* largest |y_value| and largest height of the small reflect_y calls
MaxReflectValue == 12
MaxReflectHeight == 5
ReflectYCalls ==
    {[fn |-> "reflect_y", y_value |-> v, height |-> h] :
        v \in -MaxReflectValue..MaxReflectValue, h \in -2..MaxReflectHeight}
    \cup {[fn |-> "reflect_y", y_value |-> v, height |-> HEIGHT] :
            v \in {-2 * HEIGHT - 1, -2 * HEIGHT, -HEIGHT - 1, -HEIGHT, -1, 0, 243,
                   HEIGHT, HEIGHT + 1, 2 * HEIGHT - 1, 2 * HEIGHT, 2 * HEIGHT + 1,
                   3 * HEIGHT + 7}}

\* reflect_y(y_value, height)
ReturnReflectY ==
    /\ pc = "call" /\ call.fn = "reflect_y"
    /\ ret' = reflect_y(call.y_value, call.height)
    /\ UNCHANGED rng
    /\ CallFrame

\* largest |move| of the small normalize_move calls
MaxMove == 6
MovesGiven == (-MaxMove..MaxMove) \cup {-1000000, -PADDLE_SPEED - 1, PADDLE_SPEED + 1, 1000000}
NormalizeMoveCalls == {[fn |-> "normalize_move", move |-> n] : n \in MovesGiven}

\* normalize_move(move)
ReturnNormalizeMove ==
    /\ pc = "call" /\ call.fn = "normalize_move"
    /\ ret' = normalize_move(call.move)
    /\ UNCHANGED rng
    /\ CallFrame

MovePaddleCalls ==
    {[fn |-> f, paddle |-> p, ai_move |-> n] :
        f \in {"move_left_paddle_with_ai", "move_right_paddle_with_ai"},
        p \in {left_paddle_at(y) : y \in {0, 1, 5, 6, 7, 205, 403, 404, 405, 409, 410}},
        n \in MovesGiven}

\* move_left_paddle_with_ai(paddle, ai_move), move_right_paddle_with_ai(paddle,
\* ai_move): ret is the paddle after the call
ReturnMovePaddle ==
    /\ pc = "call"
    /\ call.fn \in {"move_left_paddle_with_ai", "move_right_paddle_with_ai"}
    /\ ret' = move_paddle_with_ai(call.paddle, call.ai_move)
    /\ UNCHANGED rng
    /\ CallFrame

CallInputs == UpdateBallCalls \cup ReflectYCalls \cup NormalizeMoveCalls \cup MovePaddleCalls

CallInit == \E c \in CallInputs : CallStart(c)

CallNext == ReturnUpdateBall \/ ReturnReflectY \/ ReturnNormalizeMove \/ ReturnMovePaddle

SpecCalls == CallInit /\ [][CallNext]_vars

(***************************************************************************)
(* update_ball called frame after frame, as the frame loops of the program *)
(* do, with the paddles wherever the caller has put them inside the        *)
(* window; no rally acceleration (that is run_single_ai_match's).          *)
(***************************************************************************)
\* points after which the sequence of frames is followed no further
MaxPoints == 1
\* where the caller puts the paddles
FramePaddleTops == {6, 60}

\* create_match_objects, then the loop
BallInit ==
    /\ \E x_direction \in {-1, 1}, y_direction \in {-1, 1} :
        LET o == create_match_objects(x_direction, y_direction)
        IN  /\ left_paddle = o.left_paddle /\ right_paddle = o.right_paddle
            /\ ball_rect = o.ball_rect /\ vx = o.vx /\ vy = o.vy
    /\ pc = "frames"
    /\ left_score = 0 /\ right_score = 0 /\ frame_count = 0
    /\ left_ai = Unbound /\ right_ai = Unbound
    /\ left_mem = FreshMem /\ right_mem = FreshMem
    /\ result = NoResult /\ max_frames = 0
    /\ rng = [seed |-> -1, drawn |-> 2]
    /\ NoBenchmark

\* one frame: the paddles are placed, then update_ball runs
BallFrame ==
    /\ pc = "frames" /\ left_score + right_score < MaxPoints
    /\ \E ly \in FramePaddleTops, ry \in FramePaddleTops :
        /\ left_paddle' = clamp_paddle(left_paddle_at(ly))
        /\ right_paddle' = clamp_paddle(right_paddle_at(ry))
        /\ \E u \in BallOutcomes(left_paddle', right_paddle') :
            /\ ball_rect' = u.ball_rect /\ vx' = u.vx /\ vy' = u.vy
            /\ left_score' = u.left_score /\ right_score' = u.right_score
            /\ rng' = [rng EXCEPT !.drawn = @ + (IF u.reset THEN 2 ELSE 0)]
    /\ UNCHANGED <<pc, left_ai, right_ai, left_mem, right_mem, frame_count, result,
                   max_frames, bench_vars, fn_vars>>

BallNext == BallFrame

SpecBall == BallInit /\ [][BallNext]_vars

(***************************************************************************)
(* Claims about run_single_ai_match                                        *)
(***************************************************************************)
ErrorReasons == {"left_ai_error", "right_ai_error"}
Finished == pc = "finished"
\* a step that is one iteration of the match loop in which both calls returned
FrameStep == pc = "running" /\ frame_count' = frame_count + 1

\* C1: with a frame ceiling max_frames >= 0 the match never executes more than
\* max_frames frames, and it always reaches its finished state.
C1_TerminatesWithinCeiling ==
    /\ [](max_frames >= 0 => frame_count <= max_frames)
    /\ <>Finished

\* C1 witness: a match whose calls all returned, stopped by its ceiling after
\* executing exactly max_frames > 0 frames.
C1_Witness ==
    /\ Finished /\ result.reason = "frame_limit"
    /\ max_frames > 0 /\ frame_count = max_frames

C3_DrawIffEqualAtCeiling ==
    Finished =>
        /\ result.left_score = left_score /\ result.right_score = right_score
        /\ (result.winner = "draw" <=>
                /\ result.reason \notin ErrorReasons
                /\ frame_count = max_frames
                /\ left_score = right_score /\ left_score < WIN_SCORE)
        /\ (result.winner = "draw" => result.reason = "frame_limit")
        /\ (result.reason \notin ErrorReasons /\ left_score > right_score
                => result.winner = "left")
        /\ (result.reason \notin ErrorReasons /\ right_score > left_score
                => result.winner = "right")

\* C3 witness: a draw after points were scored on both sides.
C3_Witness ==
    Finished /\ result.winner = "draw" /\ left_score = 1 /\ right_score = 1

\* whether every outcome of a side's decision call in this frame is an error
LeftMustRaise == \A l \in choose_move(left_ai, left_mem, left_state) : l.raised
LeftMustReturn == \A l \in choose_move(left_ai, left_mem, left_state) : ~l.raised
RightMustRaise == \A r \in choose_move(right_ai, right_mem, right_state) : r.raised

\* C4: a decision call that raises ends the match in that frame, the other side
\* wins with the reason naming the side that raised, and that frame advances
\* nothing: paddles, ball, velocity and frame counter are unchanged and the
\* returned scores are those from before the frame.
C4_ErrorEndsMatchUnadvanced ==
    [][ /\ (pc = "running" /\ LoopCondition /\ LeftMustRaise
                => Finished' /\ result'.reason = "left_ai_error")
        /\ (pc = "running" /\ LoopCondition /\ LeftMustReturn /\ RightMustRaise
                => Finished' /\ result'.reason = "right_ai_error")
        /\ (pc = "running" /\ Finished' /\ result'.reason \in ErrorReasons
                => /\ result'.winner = (IF result'.reason = "left_ai_error"
                                        THEN "right" ELSE "left")
                   /\ left_paddle' = left_paddle /\ right_paddle' = right_paddle
                   /\ ball_rect' = ball_rect /\ vx' = vx /\ vy' = vy
                   /\ frame_count' = frame_count
                   /\ left_score' = left_score /\ right_score' = right_score
                   /\ result'.left_score = left_score
                   /\ result'.right_score = right_score)
      ]_vars

\* C4 witness: a right-side error in a later frame, after a point was scored.
C4_Witness ==
    /\ Finished /\ result.reason = "right_ai_error" /\ result.winner = "left"
    /\ frame_count > 0 /\ result.left_score + result.right_score > 0

\* C5: with two controllers built by create_ai the decision calls succeed, so the
\* match never ends with reason "left_ai_error" or "right_ai_error".
C5_FactoryControllersDecide ==
    (Finished /\ left_ai \in FactoryBuilt /\ right_ai \in FactoryBuilt)
        => result.reason \notin ErrorReasons

\* C6: a finished benchmark run is PASS exactly when the decisive matches
\* (candidate wins + reference wins) are at least max(5, matches \div 4), the
\* candidate's share of the decisive matches is at least the required rate (the
\* share being 0 without decisive matches), and no candidate error was counted.
\* 25 matches tallied 16/4/5 at required rate 0.60 are PASS without a candidate
\* error and FAIL with one.
C6_PassIffThreeConditions ==
    bpc = "done" =>
        LET decisive == student_wins + reference_wins
            enough_decisive == decisive >= max(5, matches \div 4)
            \* wins / decisive >= rate / 100, the left side being 0 when decisive = 0
            rate_reached == \/ decisive > 0 /\ 100 * student_wins >= pass_win_rate * decisive
                            \/ decisive = 0 /\ pass_win_rate <= 0
            the_example == /\ matches = 25 /\ student_wins = 16 /\ reference_wins = 4
                           /\ draws = 5 /\ pass_win_rate = 60
        IN  /\ passed \in {"PASS", "FAIL"}
            /\ passed = "PASS" <=> (enough_decisive /\ rate_reached /\ student_errors = 0)
            /\ the_example /\ student_errors = 0 => passed = "PASS"
            /\ the_example /\ student_errors >= 1 => passed = "FAIL"

\* C6 witness: the run of 25 matches with 16 candidate wins, 4 reference wins and
\* 5 draws, no candidate error, required rate 0.60, has ended with PASS.
C6_Witness ==
    /\ bpc = "done" /\ passed = "PASS" /\ matches = 25 /\ pass_win_rate = 60
    /\ student_wins = 16 /\ reference_wins = 4 /\ draws = 5 /\ student_errors = 0

\* the state in which run_single_ai_match starts playing
AtFreshMatch ==
    /\ pc = "running" /\ frame_count = 0 /\ left_score = 0 /\ right_score = 0
    /\ left_mem = FreshMem /\ right_mem = FreshMem
    /\ top(left_paddle) = (HEIGHT \div 2) - (PADDLE_HEIGHT \div 2)
    /\ top(right_paddle) = (HEIGHT \div 2) - (PADDLE_HEIGHT \div 2)
    /\ centerx(ball_rect) = WIDTH \div 2 /\ centery(ball_rect) = HEIGHT \div 2
    /\ abs(vx) = BALL_START_SPEED /\ abs(vy) = BALL_START_SPEED

\* C7: a benchmark run ends, and ends after exactly N = max(1, matches) matches;
\* every tallied match is in exactly one of candidate wins, reference wins and
\* draws, so the three add up to the matches played and to N at the end; after a
\* match that ended by a controller error the run goes on, and every match is
\* entered in the fresh match state.
C7_PlaysExactlyNMatches ==
    /\ [](/\ student_wins + reference_wins + draws = match_index
          /\ match_index <= max(1, args.matches)
          /\ (bpc = "done" => match_index = max(1, args.matches)))
    /\ [][ /\ (bpc = "loop" /\ bpc' = "match" => AtFreshMatch')
           /\ (match_index' # match_index =>
                 /\ match_index' = match_index + 1
                 /\ student_wins' + reference_wins' + draws'
                        = student_wins + reference_wins + draws + 1
                 /\ student_wins' >= student_wins
                 /\ reference_wins' >= reference_wins
                 /\ draws' >= draws
                 /\ bpc' # "done")
         ]_vars
    /\ <>(bpc = "done")

\* C7 witness: a run of two or more matches is over; one match of it ended by a
\* candidate error and another one did not.
C7_Witness ==
    /\ bpc = "done" /\ match_index >= 2 /\ student_errors >= 1
    /\ student_errors < match_index

\* C8: the match with index i starts as a run in isolation starts after
\* random.seed(seed + i): with the random module seeded by seed + i and two
\* directions drawn, the frame ceiling of the run, the controllers of the factory
\* with fresh internal state, and the paddles, ball, scores and frame counter of
\* create_match_objects; between matches nothing but the tallies and the match
\* index is kept.
C8_MatchesStartAsInIsolation ==
    [][ /\ max_frames' = max_frames /\ args' = args /\ factory' = factory
        /\ (bpc = "loop" /\ bpc' = "match" =>
              /\ rng' = [seed |-> args.seed + match_index, drawn |-> 2]
              /\ left_ai' = factory[1] /\ right_ai' = factory[2]
              /\ left_mem' = [hold_frames |-> 0, last_move |-> MOVE_STAY]
              /\ right_mem' = [hold_frames |-> 0, last_move |-> MOVE_STAY]
              /\ left_score' = 0 /\ right_score' = 0 /\ frame_count' = 0
              /\ pc' = "running" /\ result' = NoResult
              /\ \E x_direction \in {-1, 1}, y_direction \in {-1, 1} :
                    LET o == create_match_objects(x_direction, y_direction)
                    IN  /\ left_paddle' = o.left_paddle
                        /\ right_paddle' = o.right_paddle
                        /\ ball_rect' = o.ball_rect /\ vx' = o.vx /\ vy' = o.vy)
      ]_vars

\* C8 witness: a later match of a run has just started, seeded by seed + i, and the
\* reference controller of the run decides with a fresh hold counter.
C8_Witness ==
    /\ bpc = "match" /\ match_index >= 1 /\ pc = "running" /\ frame_count = 0
    /\ rng = [seed |-> args.seed + match_index, drawn |-> 2]
    /\ left_ai = Object("make_reference_ai") /\ left_mem = FreshMem

\* the ball of an update_ball call after integration
MovedBall ==
    [call.ball_rect EXCEPT !.x = call.ball_rect.x + call.vx,
                           !.y = call.ball_rect.y + call.vy]
UpdateBallReturned == pc = "returned" /\ call.fn = "update_ball"
HonouredLeft == colliderect(MovedBall, call.left_paddle) /\ call.vx < 0
HonouredRight == colliderect(MovedBall, call.right_paddle) /\ call.vx > 0

\* C11: when update_ball honours a paddle collision (the moved ball overlaps the
\* left paddle with vx < 0, or the right paddle with vx > 0) it returns vx with
\* the opposite sign and the same magnitude, vy with |vy| <= BALL_MAX_Y_SPEED, and
\* leaves the ball flush against the face of that paddle; when the moved ball
\* overlaps a paddle it moves away from, nothing bounces: vx is returned as it
\* came and the ball stays where integration put it.
C11_PaddleCollision ==
    UpdateBallReturned =>
        /\ HonouredLeft \/ HonouredRight =>
              /\ ret.vx = -call.vx
              /\ -BALL_MAX_Y_SPEED <= ret.vy /\ ret.vy <= BALL_MAX_Y_SPEED
        /\ HonouredLeft => left(ret.ball_rect) = right(call.left_paddle)
        /\ HonouredRight => right(ret.ball_rect) = left(call.right_paddle)
        /\ (HonouredLeft \/ HonouredRight) => top(ret.ball_rect) = top(MovedBall)
        /\ ( \/ colliderect(MovedBall, call.left_paddle) /\ call.vx > 0
             \/ colliderect(MovedBall, call.right_paddle) /\ call.vx < 0 ) =>
              /\ ret.vx = call.vx
              /\ ret.ball_rect = MovedBall
              /\ ret.vy \in {call.vy, -call.vy}

\* C11 witness: a collision with the left paddle was honoured and the vertical
\* velocity was cut back to BALL_MAX_Y_SPEED.
C11_Witness ==
    /\ UpdateBallReturned /\ HonouredLeft
    /\ call.vy + TruncDiv((centery(MovedBall) - centery(call.left_paddle)) * 6,
                          PADDLE_HEIGHT) > BALL_MAX_Y_SPEED
    /\ ret.vy = BALL_MAX_Y_SPEED /\ ret.vx > 0

\* C12: when update_ball honours no paddle collision and scores no point, the
\* ball ends at its position before the call plus (vx, vy), vx is returned as it
\* came, and vy is returned negated if the moved ball has top <= 0 or
\* bottom >= HEIGHT and as it came otherwise.
C12_IntegrationAndWallBounce ==
    ( /\ UpdateBallReturned /\ ~HonouredLeft /\ ~HonouredRight
      /\ ret.left_score = call.left_score /\ ret.right_score = call.right_score ) =>
        /\ left(ret.ball_rect) = left(call.ball_rect) + call.vx
        /\ top(ret.ball_rect) = top(call.ball_rect) + call.vy
        /\ ret.ball_rect.w = call.ball_rect.w /\ ret.ball_rect.h = call.ball_rect.h
        /\ ret.vx = call.vx
        /\ ret.vy = IF top(call.ball_rect) + call.vy <= 0
                       \/ bottom(call.ball_rect) + call.vy >= HEIGHT
                    THEN -call.vy ELSE call.vy

\* C12 witness: a call without collision or point returned from a bounce off the
\* top wall.
C12_Witness ==
    /\ UpdateBallReturned /\ ~HonouredLeft /\ ~HonouredRight
    /\ ret.left_score = call.left_score /\ ret.right_score = call.right_score
    /\ top(ret.ball_rect) <= 0 /\ call.vy < 0 /\ ret.vy = -call.vy
    /\ left(ret.ball_rect) = left(call.ball_rect) + call.vx

\* C13: create_ai returns the controller of tracking, reference, random or
\* student for that name written in any letter case, bare or padded, and raises
\* ValueError for every other name; a run_single_ai_match call whose left or right
\* name is unknown is over with that error raised: no result was returned, no
\* frame was played, no controller was called, and nothing follows.
C13_UnknownNamesRaise ==
    /\ [](/\ \A n \in NamesGiven :
                IF n.word \in AI_CHOICES
                THEN create_ai(n).shape = "pair" /\ create_ai(n) = create_ai(Name(n.word))
                ELSE create_ai(n) = ValueError
          /\ \A v \in AI_CHOICES, w \in AI_CHOICES :
                v # w => create_ai(Name(v)) # create_ai(Name(w))
          /\ (left_ai = ValueError \/ right_ai = ValueError) <=> pc = "raised"
          /\ pc = "raised" =>
                /\ result = NoResult /\ frame_count = 0
                /\ left_score = 0 /\ right_score = 0
                /\ left_mem = FreshMem /\ right_mem = FreshMem /\ rng.drawn = 0)
    /\ [][pc # "raised"]_vars

\* C13 witness: the left name was a known one, the right name was not, and the
\* call is over with the error raised.
C13_Witness ==
    /\ pc = "raised" /\ left_ai = create_ai(Written("reference", TRUE, TRUE))
    /\ right_ai = ValueError /\ frame_count = 0 /\ result = NoResult

\* C14: a run_benchmark call with a match count below 1, a frame ceiling below
\* the minimum of 60 or a required rate outside [0, 1] plays no match: no match of
\* it is ever started or tallied, and it gives no verdict.
C14_OutOfRangeArgsPlayNoMatch ==
    ( \/ args.matches < 1
      \/ args.max_match_frames < 60
      \/ args.pass_win_rate < 0 \/ args.pass_win_rate > 100 ) =>
        /\ bpc = "loop" /\ match_index = 0 /\ passed = ""

\* C15: for height > 0 reflect_y(y_value, height) lies in [0, height] and is the
\* same for y_value and y_value + 2 * height (and y_value - 2 * height), for
\* negative y_value too; for height <= 0 it is 0.
C15_ReflectY ==
    (pc = "returned" /\ call.fn = "reflect_y") =>
        IF call.height > 0
        THEN /\ 0 <= ret /\ ret <= call.height
             /\ reflect_y(call.y_value + 2 * call.height, call.height) = ret
             /\ reflect_y(call.y_value - 2 * call.height, call.height) = ret
        ELSE ret = 0

\* C15 witness: reflect_y returned for a negative y_value whose remainder lies in
\* the upper half of the period.
C15_Witness ==
    /\ pc = "returned" /\ call.fn = "reflect_y"
    /\ call.height > 0 /\ call.y_value < 0
    /\ call.y_value % (2 * call.height) > call.height
    /\ ret = 2 * call.height - (call.y_value % (2 * call.height))

\* C16: normalize_move returns -1 for a negative integer, 1 for a positive one
\* and 0 for 0; a paddle moved with any integer as the move ends at most
\* PADDLE_SPEED above or below where it was.
C16_MoveNormalised ==
    /\ (pc = "returned" /\ call.fn = "normalize_move") =>
          /\ call.move < 0 => ret = -1
          /\ call.move > 0 => ret = 1
          /\ call.move = 0 => ret = 0
    /\ ( /\ pc = "returned"
         /\ call.fn \in {"move_left_paddle_with_ai", "move_right_paddle_with_ai"} ) =>
          /\ top(ret) - top(call.paddle) <= PADDLE_SPEED
          /\ top(call.paddle) - top(ret) <= PADDLE_SPEED
          /\ left(ret) = left(call.paddle)

\* C16 witness: a paddle was moved with a move larger than 1 and went down by
\* PADDLE_SPEED.
C16_Witness ==
    /\ pc = "returned" /\ call.fn = "move_left_paddle_with_ai"
    /\ call.ai_move > PADDLE_SPEED /\ top(ret) = top(call.paddle) + PADDLE_SPEED

\* C17: in every state of a sequence of update_ball frames the ball is beyond the
\* top or bottom wall by at most one frame's vertical displacement:
\* top >= -BALL_MAX_Y_SPEED and bottom <= HEIGHT + BALL_MAX_Y_SPEED.
C17_WallInterpenetrationBounded ==
    /\ top(ball_rect) >= -BALL_MAX_Y_SPEED
    /\ bottom(ball_rect) <= HEIGHT + BALL_MAX_Y_SPEED

\* the ball of this frame after integration and paddle handling, with its
\* velocity after the bounce
AfterBounce ==
    PaddleCollisions(MoveBall(ball_rect, vx, vy), left_paddle', right_paddle')
PointScored == left_score' # left_score \/ right_score' # right_score

\* C18: in a frame of a match with a paddle hit and no point, |vx| ends one above
\* its value after the bounce unless that is BENCHMARK_MAX_BALL_X_SPEED, and a
\* non-zero vy ends with its magnitude one above unless that is
\* BENCHMARK_MAX_BALL_Y_SPEED, signs kept; in a frame without a paddle hit or
\* with a point the frame ends with the velocity update_ball returned.  In every
\* state of a match BALL_START_SPEED <= |vx| <= BENCHMARK_MAX_BALL_X_SPEED and
\* |vy| <= BENCHMARK_MAX_BALL_Y_SPEED.
C18_RallyAcceleration ==
    /\ [](pc \in {"running", "finished"} =>
            /\ BALL_START_SPEED <= abs(vx) /\ abs(vx) <= BENCHMARK_MAX_BALL_X_SPEED
            /\ abs(vy) <= BENCHMARK_MAX_BALL_Y_SPEED)
    /\ [][ FrameStep =>
            LET b == AfterBounce
                faster(v, limit) == IF v = 0 \/ abs(v) = limit THEN v
                                    ELSE IF v > 0 THEN v + 1 ELSE v - 1
            IN  /\ (b.hit # "none" /\ ~PointScored) =>
                      /\ vx' = faster(b.vx, BENCHMARK_MAX_BALL_X_SPEED)
                      /\ vy' = faster(b.vy, BENCHMARK_MAX_BALL_Y_SPEED)
                /\ (b.hit = "none" /\ ~PointScored) => (vx' = vx /\ vy' = b.vy)
                /\ PointScored =>
                      (abs(vx') = BALL_START_SPEED /\ abs(vy') = BALL_START_SPEED)
         ]_vars

\* C18 witness: a rally has reached the highest horizontal speed with the ball
\* flying level, so a hit has left both components as they were.
C18_Witness ==
    /\ pc = "running" /\ abs(vx) = BENCHMARK_MAX_BALL_X_SPEED /\ vy = 0
    /\ (left(ball_rect) = right(left_paddle) \/ right(ball_rect) = left(right_paddle))

\* C19: in every frame of a match the two snapshots show the same ball centre and
\* velocity, those of the state before the frame, and each shows the two paddles
\* where they are before the frame, the left one's own/opponent paddle being the
\* right one's opponent/own paddle; both decisions of a frame are taken on these
\* snapshots, so the right decision does not see the left paddle's move of the
\* frame; the decision calls change no ball, paddle or score: a frame moves each
\* paddle by its own decision and the ball by update_ball from where it was, and
\* a frame ended by a controller error changes none of them.
C19_SnapshotsBeforeDecisions ==
    /\ [](pc = "running" =>
            /\ left_state.ball_x = centerx(ball_rect) /\ right_state.ball_x = centerx(ball_rect)
            /\ left_state.ball_y = centery(ball_rect) /\ right_state.ball_y = centery(ball_rect)
            /\ left_state.ball_vx = vx /\ right_state.ball_vx = vx
            /\ left_state.ball_vy = vy /\ right_state.ball_vy = vy
            /\ left_state.my_side = "left" /\ right_state.my_side = "right"
            /\ left_state.my_paddle_y = top(left_paddle)
            /\ left_state.opponent_paddle_y = top(right_paddle)
            /\ right_state.my_paddle_y = top(right_paddle)
            /\ right_state.opponent_paddle_y = top(left_paddle)
            /\ left_state.my_paddle_x = left(left_paddle)
            /\ left_state.opponent_paddle_x = left(right_paddle)
            /\ right_state.my_paddle_x = left(right_paddle)
            /\ right_state.opponent_paddle_x = left(left_paddle))
    /\ [][ FrameStep =>
            /\ \E l \in choose_move(left_ai, left_mem,
                            build_ai_state("left", left_paddle, right_paddle, ball_rect, vx, vy)) :
                  /\ ~l.raised /\ left_mem' = l.mem
                  /\ left_paddle' = move_paddle_with_ai(left_paddle, l.move)
            /\ \E r \in choose_move(right_ai, right_mem,
                            build_ai_state("right", right_paddle, left_paddle, ball_rect, vx, vy)) :
                  /\ ~r.raised /\ right_mem' = r.mem
                  /\ right_paddle' = move_paddle_with_ai(right_paddle, r.move)
            /\ \E x_direction \in {-1, 1}, y_direction \in {-1, 1} :
                LET u == update_ball(ball_rect, left_paddle', right_paddle', vx, vy,
                                     left_score, right_score, x_direction, y_direction)
                IN  /\ ball_rect' = u.ball_rect
                    /\ left_score' = u.left_score /\ right_score' = u.right_score
         ]_vars
    /\ [][ (pc = "running" /\ pc' = "finished") =>
              UNCHANGED <<ball_rect, vx, vy, left_paddle, right_paddle, left_score,
                          right_score>>
         ]_vars

\* C19 witness: after the first frame the left paddle has gone up and the right
\* controller, which moves to where it sees the left paddle, has stayed.
C19_Witness ==
    /\ pc = "running" /\ frame_count = 1
    /\ left_ai = Object("stub_up") /\ right_ai = Object("stub_follow")
    /\ top(left_paddle) = (HEIGHT \div 2) - (PADDLE_HEIGHT \div 2) - PADDLE_SPEED
    /\ top(right_paddle) = (HEIGHT \div 2) - (PADDLE_HEIGHT \div 2)

\* C20: the scores of a match start at 0 and never decrease; a step changes
\* them only in a played frame, and then at most one of them, by exactly 1; so
\* in every state, and in what the match returns, neither score exceeds
\* WIN_SCORE, the two are not both WIN_SCORE, and their sum is at most the number
\* of frames played.
C20_ScoresMonotone ==
    /\ [](/\ 0 <= left_score /\ left_score <= WIN_SCORE
          /\ 0 <= right_score /\ right_score <= WIN_SCORE
          /\ ~(left_score = WIN_SCORE /\ right_score = WIN_SCORE)
          /\ left_score + right_score <= frame_count
          /\ Finished => (/\ result.left_score = left_score
                          /\ result.right_score = right_score))
    /\ [][ /\ left_score' >= left_score /\ right_score' >= right_score
           /\ (left_score' + right_score') - (left_score + right_score) \in {0, 1}
           /\ (left_score' # left_score \/ right_score' # right_score) => FrameStep
         ]_vars

\* C20 witness: a match was won with WIN_SCORE points after the other side had
\* scored too.
C20_Witness ==
    /\ Finished /\ result.reason = "score"
    /\ result.left_score = WIN_SCORE /\ result.right_score >= 1
    /\ left_score + right_score < frame_count

\* whether some outcome of a side's decision call in this frame is an error
LeftMayRaise == \E l \in choose_move(left_ai, left_mem, left_state) : l.raised
RightMayRaise == \E r \in choose_move(right_ai, right_mem, right_state) : r.raised

\* C21: in a frame the left decision call is made first and its error ends the
\* match before the right call is made: when the left call must raise the result
\* is winner "right" with reason "left_ai_error", also when the right call would
\* raise as well; a match ended by "left_ai_error" leaves the right controller's
\* cells and the random draws a right call makes untouched; and a match ended by
\* "right_ai_error" has the left call of that frame made and returned.
C21_LeftErrorBeforeRightCall ==
    [][ /\ (pc = "running" /\ LoopCondition /\ LeftMustRaise
                => /\ Finished'
                   /\ result'.winner = "right" /\ result'.reason = "left_ai_error")
        /\ (pc = "running" /\ Finished' /\ result'.reason = "left_ai_error"
                => /\ right_mem' = right_mem
                   /\ \E l \in choose_move(left_ai, left_mem, left_state) :
                        /\ l.raised
                        /\ left_mem' = l.mem
                        /\ rng' = [rng EXCEPT !.drawn = rng.drawn + l.drawn])
        /\ (pc = "running" /\ Finished' /\ result'.reason = "right_ai_error"
                => \E l \in choose_move(left_ai, left_mem, left_state) :
                        /\ ~l.raised
                        /\ left_mem' = l.mem
                        /\ \E r \in choose_move(right_ai, right_mem, right_state) :
                            /\ r.raised
                            /\ right_mem' = r.mem
                            /\ rng' = [rng EXCEPT !.drawn = rng.drawn + l.drawn + r.drawn])
      ]_vars

\* C21 witness: a match ended by "left_ai_error" in a later frame in which the
\* right call would have raised too.
C21_Witness ==
    /\ Finished /\ result.winner = "right" /\ result.reason = "left_ai_error"
    /\ frame_count > 0 /\ LeftMayRaise /\ RightMayRaise

\* a step of run_benchmark that tallies the match that just returned
TallyStep == bpc = "match" /\ match_index' = match_index + 1

\* C22: a match that returned with reason "left_ai_error" adds one candidate win
\* (so one decisive match) and nothing else to the tallies, the candidate-error
\* count included; the candidate-error count grows exactly by the matches that
\* returned "right_ai_error", and each of those adds one reference win.  A
\* finished run of 5 or more matches of which every one was tallied as a
\* candidate win is PASS, and with a reference controller whose decision call
\* always raises that is every run of 5 or more matches, each match having
\* returned "left_ai_error" without a frame played.
C22_LeftErrorIsCandidateWin ==
    /\ [][ /\ (TallyStep /\ result.reason = "left_ai_error"
                 => /\ result.winner = "right"
                    /\ student_wins' = student_wins + 1
                    /\ reference_wins' = reference_wins /\ draws' = draws
                    /\ student_errors' = student_errors)
           /\ (TallyStep /\ result.reason = "right_ai_error"
                 => /\ result.winner = "left"
                    /\ reference_wins' = reference_wins + 1
                    /\ student_wins' = student_wins /\ draws' = draws
                    /\ student_errors' = student_errors + 1)
           /\ (student_errors' # student_errors
                 => TallyStep /\ result.reason = "right_ai_error")
           /\ (TallyStep /\ (factory[1].shape # "object" \/ factory[1].fn = "stub_raise")
                 => result.reason = "left_ai_error" /\ frame_count = 0)
         ]_vars
    /\ [](bpc = "done" /\ matches >= 5 /\ student_wins = matches
            => passed = "PASS" /\ student_errors = 0)
    /\ []((/\ bpc = "done" /\ matches >= 5
           /\ (factory[1].shape # "object" \/ factory[1].fn = "stub_raise"))
            => passed = "PASS" /\ student_wins = matches /\ frame_count = 0)

\* C22 witness: a run of 5 or more matches has ended with PASS; its reference
\* controller is what create_ai("reference") returned, every match was tallied
\* as a candidate win, and the last one returned "left_ai_error" at frame 0.
C22_Witness ==
    /\ bpc = "done" /\ passed = "PASS" /\ matches >= 5
    /\ factory = ShippedFactory
    /\ student_wins = matches /\ student_errors = 0
    /\ result.reason = "left_ai_error" /\ frame_count = 0

\* C23: a finished benchmark run of fewer than 5 matches, the match count being
\* max(1, args.matches), is FAIL whatever its matches returned and whatever rate
\* is required: its decisive matches cannot reach the minimum max(5, matches \div 4),
\* which is 5.
C23_FewerThanFiveMatchesFail ==
    (bpc = "done" /\ max(1, args.matches) < 5)
        => /\ passed = "FAIL"
           /\ matches = max(1, args.matches)
           /\ minimum_decisive = 5
           /\ student_wins + reference_wins < minimum_decisive

\* C23 witness: a run of 4 matches, each won by the candidate without a candidate
\* error and with no rate required, has ended with FAIL.
C23_Witness ==
    /\ bpc = "done" /\ passed = "FAIL" /\ args.matches = 4 /\ match_index = 4
    /\ student_wins = 4 /\ student_errors = 0 /\ pass_win_rate = 0

\* C9: both paddles lie fully inside the window in every state of a match.
C9_PaddlesInsideWindow ==
    /\ 0 <= top(left_paddle) /\ bottom(left_paddle) <= HEIGHT
    /\ 0 <= top(right_paddle) /\ bottom(right_paddle) <= HEIGHT

\* C9 witness: after moves, one paddle is held at the top edge and the other at
\* the bottom edge; neither position is a whole number of steps from the start.
C9_Witness ==
    frame_count > 0 /\ top(left_paddle) = 0 /\ bottom(right_paddle) = HEIGHT

\* the ball of this frame after integration and paddle handling, before scoring
BallBeforeScoring ==
    PaddleCollisions(MoveBall(ball_rect, vx, vy), left_paddle', right_paddle').ball_rect

\* C10: in a frame the right score grows by one exactly when the ball, after
\* integration and paddle handling, has left <= 0, the left score grows by one
\* exactly when otherwise right >= WIDTH; a frame that changes a score leaves the
\* other score alone and ends with the ball centred and |vx| = |vy| =
\* BALL_START_SPEED.
C10_ScoringAndReset ==
    [][ FrameStep =>
        LET b == BallBeforeScoring
            right_point == left(b) <= 0
            left_point == ~right_point /\ right(b) >= WIDTH
        IN  /\ right_score' = right_score + (IF right_point THEN 1 ELSE 0)
            /\ left_score' = left_score + (IF left_point THEN 1 ELSE 0)
            /\ (left_score' # left_score \/ right_score' # right_score
                    => /\ centerx(ball_rect') = WIDTH \div 2
                       /\ centery(ball_rect') = HEIGHT \div 2
                       /\ abs(vx') = BALL_START_SPEED
                       /\ abs(vy') = BALL_START_SPEED)
      ]_vars

\* C10 witness: points were scored at both boundaries and the ball is at the centre.
C10_Witness ==
    /\ left_score >= 1 /\ right_score >= 1
    /\ centerx(ball_rect) = WIDTH \div 2 /\ centery(ball_rect) = HEIGHT \div 2

=============================================================================
